---- MODULE Spec2Model ----
(***************************************************************************)
(* A model of the candidate/job matching engine (MatchingSystem) and of    *)
(* account registration (CandidateRegistrationSystem).                     *)
(* Texts are TLA+ strings handled character by character, scores are exact *)
(* rationals <<numerator, denominator>>, percentages are integers counting *)
(* hundredths of a percent (8525 stands for 85.25).                        *)
(***************************************************************************)
EXTENDS Integers, Sequences, FiniteSets, TLC

VARIABLES pc, op, args, ret, users_sheet

vars == <<pc, op, args, ret, users_sheet>>

(***************************************************************************)
(* Python values and string primitives                                     *)
(***************************************************************************)

\* The value a mapping's .get returns for an absent key, and the value a
\* geocoder returns for an address it cannot resolve.
None == "<None>"

UpperLetters == "ABCDEFGHIJKLMNOPQRSTUVWXYZ"

LowerLetters == "abcdefghijklmnopqrstuvwxyz"

Digits == "0123456789"

CharAt(s, i) == SubSeq(s, i, i)

IndexIn(alphabet, c) ==
    IF \E i \in 1..Len(alphabet) : CharAt(alphabet, i) = c
    THEN CHOOSE i \in 1..Len(alphabet) : CharAt(alphabet, i) = c
    ELSE 0

LowerChar(c) ==
    LET i == IndexIn(UpperLetters, c)
    IN  IF i = 0 THEN c ELSE CharAt(LowerLetters, i)

RECURSIVE Lower(_)
\* str.lower()
Lower(s) ==
    IF s = "" THEN ""
    ELSE LowerChar(CharAt(s, 1)) \o Lower(SubSeq(s, 2, Len(s)))

\* p in s (Python substring test)
Contains(s, p) ==
    \E i \in 1..(Len(s) - Len(p) + 1) : SubSeq(s, i, i + Len(p) - 1) = p

\* s[i:].startswith(p), positions counted from 1
StartsAt(s, i, p) ==
    /\ i >= 1
    /\ i + Len(p) - 1 <= Len(s)
    /\ SubSeq(s, i, i + Len(p) - 1) = p

IsSpace(c) == c \in {" ", "\t", "\n"}

IsDigit(c) == IndexIn(Digits, c) # 0

\* the words of str.split(): the maximal runs of non-whitespace characters
Split(s) ==
    { SubSeq(s, i, j) : <<i, j>> \in
        { w \in (1..Len(s)) \X (1..Len(s)) :
            /\ w[1] <= w[2]
            /\ \A k \in w[1]..w[2] : ~IsSpace(CharAt(s, k))
            /\ (w[1] = 1 \/ IsSpace(CharAt(s, w[1] - 1)))
            /\ (w[2] = Len(s) \/ IsSpace(CharAt(s, w[2] + 1))) } }

RECURSIVE ParseInt(_)
\* int(s) of a run of decimal digits
ParseInt(s) ==
    IF s = "" THEN 0
    ELSE 10 * ParseInt(SubSeq(s, 1, Len(s) - 1)) + (IndexIn(Digits, CharAt(s, Len(s))) - 1)

\* dict.get(key, default) / Series.get(key, default)
Get(rec, key, default) == IF key \in DOMAIN rec THEN rec[key] ELSE default

\* Python truthiness of an optional string
Truthy(v) == v # None /\ v # ""

(***************************************************************************)
(* Skill taxonomy and skill extraction                                     *)
(***************************************************************************)

\* self.tech_skills: category -> skills
tech_skills ==
    [ programming |-> {"python", "java", "javascript", "c++", "c#", "ruby", "go",
                       "rust", "swift", "kotlin", "php", "typescript", "scala", "r",
                       "matlab"},
      web         |-> {"html", "css", "react", "angular", "vue", "node.js", "django",
                       "flask", "spring", "express", "next.js", "nuxt.js"},
      database    |-> {"sql", "mysql", "postgresql", "mongodb", "redis", "cassandra",
                       "elasticsearch", "dynamodb"},
      cloud       |-> {"aws", "azure", "gcp", "docker", "kubernetes", "terraform",
                       "jenkins", "ci/cd"},
      data        |-> {"pandas", "numpy", "scikit-learn", "tensorflow", "pytorch",
                       "keras", "tableau", "power bi", "spark"},
      mobile      |-> {"android", "ios", "react native", "flutter", "xamarin", "swift",
                       "kotlin"},
      design      |-> {"figma", "sketch", "adobe xd", "photoshop", "illustrator",
                       "ui/ux", "wireframing"},
      soft_skills |-> {"leadership", "communication", "teamwork", "problem solving",
                       "critical thinking", "creativity", "adaptability"} ]

\* The entity labels extract_skills keeps.
SkillLabels == {"ORG", "PRODUCT", "TECHNOLOGY"}

\* extract_skills(text), given what self.nlp(text) yields: a record
\* [raises |-> BOOLEAN, ents |-> set of <<entity text, label>>].
\* The result is the set behind list(set(found_skills)).
extract_skills(text, nlp) ==
    LET text_lower == Lower(text)
        from_database ==
            { skill \in UNION { tech_skills[category] : category \in DOMAIN tech_skills } :
                Contains(text_lower, skill) }
        from_entities ==
            { Lower(ent[1]) : ent \in { e \in nlp.ents : e[2] \in SkillLabels } }
    IN  from_database \cup from_entities

\* extract_skills raises exactly when the entity recognizer does.
extract_skills_raises(nlp) == nlp.raises

(***************************************************************************)
(* Experience extraction (regular expressions, matched by hand)            *)
(***************************************************************************)

\* first position >= i that holds no digit: the end of a greedy \d+
RECURSIVE DigitsEnd(_, _)
DigitsEnd(t, i) ==
    IF i <= Len(t) /\ IsDigit(CharAt(t, i)) THEN DigitsEnd(t, i + 1) ELSE i

\* first position >= i that holds no whitespace: the end of a greedy \s*
RECURSIVE SkipSpace(_, _)
SkipSpace(t, i) ==
    IF i <= Len(t) /\ IsSpace(CharAt(t, i)) THEN SkipSpace(t, i + 1) ELSE i

\* position after an optional literal p at i: p?
Opt(t, i, p) == IF StartsAt(t, i, p) THEN i + Len(p) ELSE i

\* (\d+)\+?\s*<unit>s?\s*(?:of\s*)?<word>  matches at position i
NumUnitWordAt(t, i, unit, word, allow_of) ==
    /\ i <= Len(t)
    /\ IsDigit(CharAt(t, i))
    /\ LET c == SkipSpace(t, Opt(t, DigitsEnd(t, i), "+"))
       IN  /\ StartsAt(t, c, unit)
           /\ LET e == SkipSpace(t, Opt(t, c + Len(unit), "s"))
              IN  \/ StartsAt(t, e, word)
                  \/ /\ allow_of
                     /\ StartsAt(t, e, "of")
                     /\ StartsAt(t, SkipSpace(t, e + 2), word)

\* where the number of  experience\s*(?:of\s*)?\s*(\d+)\+?\s*years?  starts
\* for a match at position i
ExperienceNumStart(t, i) ==
    LET a == SkipSpace(t, i + Len("experience"))
    IN  IF StartsAt(t, a, "of") THEN SkipSpace(t, a + 2) ELSE a

\* experience\s*(?:of\s*)?\s*(\d+)\+?\s*years?  matches at position i
ExperienceNumAt(t, i) ==
    /\ StartsAt(t, i, "experience")
    /\ LET n == ExperienceNumStart(t, i)
       IN  /\ n <= Len(t)
           /\ IsDigit(CharAt(t, n))
           /\ StartsAt(t, SkipSpace(t, Opt(t, DigitsEnd(t, n), "+")), "year")

\* where the second number of  (\d+)\s*to\s*(\d+)\s*years?  starts
RangeSecondStart(t, i) == SkipSpace(t, SkipSpace(t, DigitsEnd(t, i)) + 2)

\* (\d+)\s*to\s*(\d+)\s*years?  matches at position i
RangeAt(t, i) ==
    /\ i <= Len(t)
    /\ IsDigit(CharAt(t, i))
    /\ StartsAt(t, SkipSpace(t, DigitsEnd(t, i)), "to")
    /\ LET n == RangeSecondStart(t, i)
       IN  /\ n <= Len(t)
           /\ IsDigit(CharAt(t, n))
           /\ StartsAt(t, SkipSpace(t, DigitsEnd(t, n)), "year")

\* the four single-number patterns, in the order of the list `patterns`
PatternAt(k, t, i) ==
    CASE k = 1 -> NumUnitWordAt(t, i, "year", "experience", TRUE)
      [] k = 2 -> ExperienceNumAt(t, i)
      [] k = 3 -> NumUnitWordAt(t, i, "year", "professional", TRUE)
      [] k = 4 -> NumUnitWordAt(t, i, "yr", "exp", FALSE)

\* re.search: the leftmost position at which pattern k matches, 0 for no match
Search(k, t) ==
    IF \E i \in 1..Len(t) : PatternAt(k, t, i)
    THEN CHOOSE i \in 1..Len(t) :
            PatternAt(k, t, i) /\ \A j \in 1..(i - 1) : ~PatternAt(k, t, j)
    ELSE 0

\* int(match.group(1)) for pattern k matching at position i
Group1(k, t, i) ==
    LET n == IF k = 2 THEN ExperienceNumStart(t, i) ELSE i
    IN  ParseInt(SubSeq(t, n, DigitsEnd(t, n) - 1))

SearchRange(t) ==
    IF \E i \in 1..Len(t) : RangeAt(t, i)
    THEN CHOOSE i \in 1..Len(t) : RangeAt(t, i) /\ \A j \in 1..(i - 1) : ~RangeAt(t, j)
    ELSE 0

\* the pattern tried last winning, instead of the pattern tried first
extract_experience_years_last_wins(text) ==
    LET t == Lower(text)
        hits == { k \in 1..4 : Search(k, t) # 0 }
    IN  IF hits # {}
        THEN LET k == CHOOSE k \in hits : \A h \in hits : k >= h
             IN  Group1(k, t, Search(k, t))
        ELSE LET i == SearchRange(t)
             IN  IF i # 0
                 THEN LET n == RangeSecondStart(t, i)
                      IN  (ParseInt(SubSeq(t, i, DigitsEnd(t, i) - 1))
                           + ParseInt(SubSeq(t, n, DigitsEnd(t, n) - 1))) \div 2
                 ELSE 0

\* extract_experience_years(text)
extract_experience_years(text) ==
    LET t == Lower(text)
        hits == { k \in 1..4 : Search(k, t) # 0 }
    IN  IF hits # {}
        THEN LET k == CHOOSE k \in hits : \A h \in hits : k <= h
             IN  Group1(k, t, Search(k, t))
        ELSE LET i == SearchRange(t)
             IN  IF i # 0
                 THEN LET n == RangeSecondStart(t, i)
                      IN  (ParseInt(SubSeq(t, i, DigitsEnd(t, i) - 1))
                           + ParseInt(SubSeq(t, n, DigitsEnd(t, n) - 1))) \div 2
                 ELSE 0

(***************************************************************************)
(* Scores: exact rationals <<numerator, denominator>>, denominator > 0     *)
(***************************************************************************)

Abs(n) == IF n < 0 THEN -n ELSE n

RECURSIVE Gcd(_, _)
Gcd(a, b) == IF b = 0 THEN a ELSE Gcd(b, a % b)

\* n/d in lowest terms
Rat(n, d) == LET g == Gcd(Abs(n), d) IN <<n \div g, d \div g>>

RatLeq(a, b) == a[1] * b[2] <= b[1] * a[2]

RatAdd(a, b) == Rat(a[1] * b[2] + b[1] * a[2], a[2] * b[2])

\* the rational a times n/d
RatScale(a, n, d) == Rat(a[1] * n, a[2] * d)

\* round(x * 100, 2) as a count of hundredths: the integer nearest to
\* 10000 * x, a tie going to the even neighbour (Python's round)
RoundPct(x) ==
    LET n == 10000 * x[1]
        q == n \div x[2]
        r == n % x[2]
    IN  IF 2 * r < x[2] THEN q
        ELSE IF 2 * r > x[2] THEN q + 1
        ELSE IF q % 2 = 0 THEN q ELSE q + 1

(***************************************************************************)
(* Scorers                                                                 *)
(***************************************************************************)

\* geodesic(...).kilometers between two resolved places; a place is reduced
\* to its position in km along one line
geodesic_km(loc1, loc2) ==
    IF loc1.km >= loc2.km THEN loc1.km - loc2.km ELSE loc2.km - loc1.km

\* the distance bands of lines 105-112
distance_score_inclusive(distance) ==
    IF distance <= 50 THEN Rat(1, 1)
    ELSE IF distance <= 100 THEN Rat(8, 10)
    ELSE IF distance <= 500 THEN Rat(5, 10)
    ELSE Rat(2, 10)

distance_score(distance) ==
    IF distance < 50 THEN Rat(1, 1)
    ELSE IF distance < 100 THEN Rat(8, 10)
    ELSE IF distance < 500 THEN Rat(5, 10)
    ELSE Rat(2, 10)

\* the string matching of lines 115-120, for a location that did not resolve
string_fallback(candidate_location, job_location) ==
    IF Lower(candidate_location) = Lower(job_location)
    THEN Rat(1, 1)
    ELSE IF \E part \in Split(Lower(candidate_location)) :
                Contains(Lower(job_location), part)
    THEN Rat(7, 10)
    ELSE Rat(3, 10)

except_fallback_with_tokens(candidate_location, job_location) ==
    string_fallback(candidate_location, job_location)

\* the string matching of the except branch, lines 123-126
except_fallback(candidate_location, job_location) ==
    IF Lower(candidate_location) = Lower(job_location)
    THEN Rat(1, 1)
    ELSE Rat(3, 10)

\* calculate_location_score. geo1 and geo2 are what self.geolocator.geocode
\* does for the candidate's and the job's location: a record
\* [raises |-> BOOLEAN, found |-> BOOLEAN, km |-> Int].
calculate_location_score(candidate_location, job_location, geo1, geo2) ==
    IF ~Truthy(candidate_location) \/ ~Truthy(job_location)
    THEN Rat(1, 2)
    ELSE IF Contains(Lower(candidate_location), "remote")
            \/ Contains(Lower(job_location), "remote")
    THEN Rat(1, 1)
    ELSE IF geo1.raises \/ geo2.raises
    THEN except_fallback(candidate_location, job_location)
    ELSE IF geo1.found /\ geo2.found
    THEN distance_score(geodesic_km(geo1, geo2))
    ELSE string_fallback(candidate_location, job_location)

\* two plausible slips in calculate_skills_match: comparing the skills as
\* they are spelled, and dividing by all the skills of either side
calculate_skills_match_case_sensitive(candidate_skills, required_skills) ==
    IF candidate_skills = {} \/ required_skills = {}
    THEN Rat(0, 1)
    ELSE Rat(Cardinality(candidate_skills \cap required_skills),
             Cardinality(required_skills))

calculate_skills_match_over_union(candidate_skills, required_skills) ==
    IF candidate_skills = {} \/ required_skills = {}
    THEN Rat(0, 1)
    ELSE LET candidate_set == { Lower(x) : x \in candidate_skills }
             required_set == { Lower(x) : x \in required_skills }
         IN  Rat(Cardinality(candidate_set \cap required_set),
                 Cardinality(candidate_set \cup required_set))

\* calculate_skills_match; the two collections are given as sets of strings
calculate_skills_match(candidate_skills, required_skills) ==
    IF candidate_skills = {} \/ required_skills = {}
    THEN Rat(0, 1)
    ELSE LET candidate_set == { Lower(s) : s \in candidate_skills }
             required_set == { Lower(s) : s \in required_skills }
         IN  IF required_set = {}
             THEN Rat(1, 1)
             ELSE Rat(Cardinality(candidate_set \cap required_set),
                      Cardinality(required_set))

\* calculate_semantic_similarity. encode is what the embedding model does for
\* the two texts: [raises |-> BOOLEAN, cosine |-> rational].
calculate_semantic_similarity(text1, text2, encode) ==
    IF text1 = "" \/ text2 = "" THEN Rat(0, 1) ELSE encode.cosine

\* calculate_semantic_similarity raises when the model is reached and raises
calculate_semantic_similarity_raises(text1, text2, encode) ==
    text1 # "" /\ text2 # "" /\ encode.raises

(***************************************************************************)
(* find_matches                                                            *)
(***************************************************************************)

\* required_experience: the years the job asks for
required_experience_of(job_data) ==
    extract_experience_years(
        Get(job_data, "job_description", "") \o " "
            \o Get(job_data, "experience_required", ""))

\* required_skills: the skills the job asks for
required_skills_of(job_data, nlp_job) ==
    extract_skills(
        Get(job_data, "job_description", "") \o " "
            \o Get(job_data, "required_skills", "") \o " "
            \o Get(job_data, "job_title", ""),
        nlp_job)

job_profile_of(job_data) ==
    Get(job_data, "job_title", "") \o " "
        \o Get(job_data, "job_description", "") \o " "
        \o Get(job_data, "required_skills", "")

candidate_profile_of(candidate) ==
    Get(candidate, "current_position", "") \o " "
        \o Get(candidate, "skills", "") \o " "
        \o Get(candidate, "profile_summary", "")

\* the candidate's skills, from skills + profile summary + position
candidate_skills_of(candidate, nlp) ==
    extract_skills(
        Get(candidate, "skills", "") \o " "
            \o Get(candidate, "profile_summary", "") \o " "
            \o Get(candidate, "current_position", ""),
        nlp)

\* the candidate's years, from profile summary + years_experience
candidate_experience_years_of(candidate) ==
    extract_experience_years(
        Get(candidate, "profile_summary", "") \o " "
            \o Get(candidate, "years_experience", ""))

\* a check that only asks whether the row has a full_name
has_full_name_key_only(candidate) == Get(candidate, "full_name", None) # None

\* "if not candidate.get('full_name'): continue" does not skip this row
has_full_name(candidate) == Truthy(Get(candidate, "full_name", None))

\* an experience score without the cap at 1.0
experience_score_uncapped(candidate_experience_years, required_experience) ==
    IF required_experience > 0
    THEN Rat(candidate_experience_years, required_experience)
    ELSE Rat(1, 1)

\* no partial credit: a candidate below the requirement scores 0
experience_score_all_or_nothing(candidate_experience_years, required_experience) ==
    IF candidate_experience_years >= required_experience THEN Rat(1, 1) ELSE Rat(0, 1)

\* the experience score of lines 207-214
experience_score_of(candidate_experience_years, required_experience) ==
    IF required_experience > 0
    THEN IF candidate_experience_years >= required_experience
         THEN Rat(1, 1)
         ELSE Rat(candidate_experience_years, required_experience)
    ELSE Rat(1, 1)

\* the weights of skills and semantic similarity taken for each other
final_score_swapped(skills_score, semantic_score, experience_score, location_score) ==
    RatAdd(RatAdd(RatScale(skills_score, 30, 100), RatScale(semantic_score, 35, 100)),
           RatAdd(RatScale(experience_score, 20, 100), RatScale(location_score, 15, 100)))

\* the weighted final score of lines 217-222
final_score_of(skills_score, semantic_score, experience_score, location_score) ==
    RatAdd(RatAdd(RatScale(skills_score, 35, 100), RatScale(semantic_score, 30, 100)),
           RatAdd(RatScale(experience_score, 20, 100), RatScale(location_score, 15, 100)))

\* the candidate's surplus reported as the missing skills
missing_skills_swapped(candidate_skills, required_skills) ==
    candidate_skills \ required_skills

\* line 237: the required skills the candidate lacks
missing_skills_of(candidate_skills, required_skills) ==
    required_skills \ candidate_skills

\* One pass of the loop body for a row that is not skipped: the match_result
\* dictionary. cap holds what the capabilities do during this row:
\* [nlp, encode, geo1, geo2]. The field row is the row's place in
\* candidates_df; it is not a key of the dictionary.
match_result_of(job_data, required_skills, required_experience, candidate, row, cap) ==
    LET candidate_location == Get(candidate, "location", "")
        candidate_skills == candidate_skills_of(candidate, cap.nlp)
        candidate_experience_years == candidate_experience_years_of(candidate)
        skills_score == calculate_skills_match(candidate_skills, required_skills)
        semantic_score ==
            calculate_semantic_similarity(
                job_profile_of(job_data), candidate_profile_of(candidate), cap.encode)
        location_score ==
            calculate_location_score(
                candidate_location, Get(job_data, "location", ""), cap.geo1, cap.geo2)
        experience_score ==
            experience_score_of(candidate_experience_years, required_experience)
        final_score ==
            final_score_of(skills_score, semantic_score, experience_score, location_score)
    IN  [ row               |-> row,
          candidate_id      |-> Get(candidate, "candidate_id", "Unknown"),
          name              |-> Get(candidate, "full_name", "Unknown"),
          email             |-> Get(candidate, "email", ""),
          current_position  |-> Get(candidate, "current_position", ""),
          years_experience  |-> candidate_experience_years,
          location          |-> candidate_location,
          match_percentage  |-> RoundPct(final_score),
          skills_match      |-> RoundPct(skills_score),
          experience_match  |-> RoundPct(experience_score),
          location_match    |-> RoundPct(location_score),
          matching_skills   |-> candidate_skills \cap required_skills,
          missing_skills    |-> missing_skills_of(candidate_skills, required_skills),
          additional_skills |-> candidate_skills \ required_skills ]

\* the loop body raises for this row: nothing in find_matches catches what
\* extract_skills or calculate_semantic_similarity raise
row_raises(job_data, candidate, cap) ==
    /\ has_full_name(candidate)
    /\ \/ extract_skills_raises(cap.nlp)
       \/ calculate_semantic_similarity_raises(
              job_profile_of(job_data), candidate_profile_of(candidate), cap.encode)

\* find_matches raises: while extracting the job's skills, or in some row
find_matches_raises(job_data, candidates_df, nlp_job, caps) ==
    \/ extract_skills_raises(nlp_job)
    \/ \E i \in 1..Len(candidates_df) : row_raises(job_data, candidates_df[i], caps[i])

RECURSIVE iterrows(_, _, _, _, _, _, _)
\* the for loop from row i on, matches being the list built so far
iterrows(job_data, required_skills, required_experience, candidates_df, caps, i, matches) ==
    IF i > Len(candidates_df) THEN matches
    ELSE IF ~has_full_name(candidates_df[i])
    THEN iterrows(job_data, required_skills, required_experience, candidates_df, caps,
                  i + 1, matches)
    ELSE iterrows(job_data, required_skills, required_experience, candidates_df, caps,
                  i + 1,
                  Append(matches,
                         match_result_of(job_data, required_skills, required_experience,
                                         candidates_df[i], i, caps[i])))

\* a sort step that puts x before the entries it ties with
insert_match_before_ties(sorted, x) ==
    LET p == Cardinality({ i \in 1..Len(sorted) :
                             sorted[i].match_percentage > x.match_percentage })
    IN  SubSeq(sorted, 1, p) \o <<x>> \o SubSeq(sorted, p + 1, Len(sorted))

\* one step of the stable descending sort: x goes after every entry whose
\* key is no smaller
insert_match(sorted, x) ==
    LET p == Cardinality({ i \in 1..Len(sorted) :
                             sorted[i].match_percentage >= x.match_percentage })
    IN  SubSeq(sorted, 1, p) \o <<x>> \o SubSeq(sorted, p + 1, Len(sorted))

RECURSIVE sort_matches(_)
\* matches.sort(key=lambda x: x['match_percentage'], reverse=True)
sort_matches(matches) ==
    IF matches = <<>> THEN <<>>
    ELSE insert_match(sort_matches(SubSeq(matches, 1, Len(matches) - 1)),
                      matches[Len(matches)])

\* a slice that is one entry too long
slice_one_more(matches, n) ==
    SubSeq(matches, 1, IF n + 1 < Len(matches) THEN n + 1 ELSE Len(matches))

\* matches[:top_n]
slice_top_n(matches, n) ==
    IF n >= 0
    THEN SubSeq(matches, 1, IF n < Len(matches) THEN n ELSE Len(matches))
    ELSE SubSeq(matches, 1, Len(matches) + n)

\* the sorted list `matches` of find_matches just before the return
sorted_matches_of(job_data, candidates_df, nlp_job, caps) ==
    sort_matches(
        iterrows(job_data, required_skills_of(job_data, nlp_job),
                 required_experience_of(job_data), candidates_df, caps, 1, <<>>))

(***************************************************************************)
(* Inputs: jobs, candidate rows and what the capabilities do               *)
(***************************************************************************)

\* the longest candidates_df
MaxCands == 2

\* the largest top_n
MaxTopN == 3

NoEntities == [raises |-> FALSE, ents |-> {}]

NlpRaises == [raises |-> TRUE, ents |-> {}]

Entities(ents) == [raises |-> FALSE, ents |-> ents]

Cosine(n, d) == [raises |-> FALSE, cosine |-> Rat(n, d)]

EncodeRaises == [raises |-> TRUE, cosine |-> Rat(0, 1)]

Place(km) == [raises |-> FALSE, found |-> TRUE, km |-> km]

Unresolved == [raises |-> FALSE, found |-> FALSE, km |-> 0]

GeocodeRaises == [raises |-> TRUE, found |-> FALSE, km |-> 0]

PythonJob ==
    [ job_title           |-> "Python Developer",
      job_description     |-> "5 years experience in Python and SQL",
      required_skills     |-> "python, sql",
      location            |-> "Berlin Germany",
      experience_required |-> "5 years",
      salary_range        |-> "$80,000 - $120,000" ]

DesignJob ==
    [ job_title           |-> "Designer",
      job_description     |-> "Figma and Sketch at Acme Corp",
      required_skills     |-> "figma",
      location            |-> "Remote",
      experience_required |-> "",
      salary_range        |-> "" ]

\* a request body with no field at all
EmptyJob == [ k \in {} |-> "" ]

\* job_data together with what the entity recognizer does on the job's text
JobPool ==
    { [job_data |-> PythonJob, nlp_job |-> NoEntities],
      [job_data |-> DesignJob, nlp_job |-> Entities({<<"Acme Corp", "ORG">>})],
      [job_data |-> EmptyJob,  nlp_job |-> NoEntities],
      [job_data |-> PythonJob, nlp_job |-> NlpRaises] }

Ann ==
    [ candidate_id     |-> "c1",
      full_name        |-> "Ann",
      email            |-> "ann@x.io",
      current_position |-> "Developer",
      years_experience |-> "6",
      skills           |-> "Python, SQL, AWS",
      profile_summary  |-> "6 years of experience",
      location         |-> "Berlin",
      expected_salary  |-> "100000" ]

\* scores like Ann, asks for another salary
Bob ==
    [ Ann EXCEPT !.candidate_id = "c2", !.full_name = "Bob", !.email = "bob@x.io",
                 !.expected_salary = "60000" ]

\* a row whose name cell is empty
Blank == [ Ann EXCEPT !.candidate_id = "c3", !.full_name = "" ]

\* a row with no full_name at all
Nameless ==
    [ candidate_id     |-> "c4",
      email            |-> "n@x.io",
      skills           |-> "Java",
      profile_summary  |-> "",
      location         |-> "Paris" ]

Eve ==
    [ candidate_id     |-> "c5",
      full_name        |-> "Eve",
      email            |-> "eve@x.io",
      current_position |-> "Designer at Acme Corp",
      years_experience |-> "3",
      skills           |-> "Figma, SQL",
      profile_summary  |-> "2 yrs exp",
      location         |-> "Paris",
      expected_salary  |-> "$90,000" ]

Fay ==
    [ candidate_id     |-> "c6",
      full_name        |-> "Fay",
      years_experience |-> "3",
      location         |-> "germany" ]

\* a candidate row together with what the capabilities do while it is scored
RowPool ==
    { [candidate |-> Ann, nlp |-> NoEntities, encode |-> Cosine(1, 2),
       geo1 |-> Place(0), geo2 |-> Place(40)],
      [candidate |-> Bob, nlp |-> NoEntities, encode |-> Cosine(1, 2),
       geo1 |-> Place(0), geo2 |-> Place(40)],
      [candidate |-> Blank, nlp |-> NlpRaises, encode |-> EncodeRaises,
       geo1 |-> GeocodeRaises, geo2 |-> GeocodeRaises],
      [candidate |-> Nameless, nlp |-> NoEntities, encode |-> Cosine(1, 1),
       geo1 |-> Place(0), geo2 |-> Place(0)],
      [candidate |-> Eve, nlp |-> Entities({<<"Acme Corp", "ORG">>, <<"Paris", "GPE">>}),
       encode |-> Cosine(1, 1), geo1 |-> Place(1000), geo2 |-> Place(40)],
      [candidate |-> Eve, nlp |-> NoEntities, encode |-> EncodeRaises,
       geo1 |-> Place(1000), geo2 |-> Place(40)],
      [candidate |-> Ann, nlp |-> NlpRaises, encode |-> Cosine(1, 2),
       geo1 |-> Place(0), geo2 |-> Place(40)],
      [candidate |-> Fay, nlp |-> NoEntities, encode |-> Cosine(-1, 1),
       geo1 |-> Unresolved, geo2 |-> Place(40)],
      [candidate |-> Fay, nlp |-> NoEntities, encode |-> Cosine(0, 1),
       geo1 |-> GeocodeRaises, geo2 |-> Place(40)] }

\* the sequences over S of length at most n
SeqsUpTo(S, n) == UNION { [1..k -> S] : k \in 0..n }

TopNs == (-1)..MaxTopN

(***************************************************************************)
(* The ranking request: find_matches(job_data, candidates_df, top_n)       *)
(***************************************************************************)

Init ==
    /\ pc = "call"
    /\ op = "find_matches"
    /\ \E job \in JobPool, rows \in SeqsUpTo(RowPool, MaxCands), top_n \in TopNs :
           args = [ job_data      |-> job.job_data,
                    nlp_job       |-> job.nlp_job,
                    candidates_df |-> [i \in DOMAIN rows |-> rows[i].candidate],
                    caps          |-> [i \in DOMAIN rows |->
                                          [ nlp    |-> rows[i].nlp,
                                            encode |-> rows[i].encode,
                                            geo1   |-> rows[i].geo1,
                                            geo2   |-> rows[i].geo2 ]],
                    top_n         |-> top_n ]
    /\ ret = <<>>
    /\ users_sheet = <<>>

\* find_matches runs to its return statement
FindMatchesReturns ==
    /\ pc = "call"
    /\ op = "find_matches"
    /\ ~find_matches_raises(args.job_data, args.candidates_df, args.nlp_job, args.caps)
    /\ pc' = "returned"
    /\ ret' = LET matches == sorted_matches_of(args.job_data, args.candidates_df,
                                               args.nlp_job, args.caps)
              IN  [ matches |-> matches, value |-> slice_top_n(matches, args.top_n) ]
    /\ UNCHANGED <<op, args, users_sheet>>

\* an exception leaves find_matches
FindMatchesRaises ==
    /\ pc = "call"
    /\ op = "find_matches"
    /\ find_matches_raises(args.job_data, args.candidates_df, args.nlp_job, args.caps)
    /\ pc' = "raised"
    /\ UNCHANGED <<op, args, ret, users_sheet>>

Next == FindMatchesReturns \/ FindMatchesRaises

Spec == Init /\ [][Next]_vars

(***************************************************************************)
(* A direct call: calculate_location_score(candidate_location, job_location)*)
(***************************************************************************)

LocationPool ==
    { None, "", "Remote", "remote work", "Berlin", "berlin", "Berlin Germany",
      "New York", "York", "Paris" }

GeocodePool ==
    { GeocodeRaises, Unresolved, Place(0), Place(49), Place(50), Place(99), Place(100),
      Place(499), Place(500), Place(1000) }

InitLocation ==
    /\ pc = "call"
    /\ op = "calculate_location_score"
    /\ \E c \in LocationPool, j \in LocationPool, g1 \in GeocodePool, g2 \in GeocodePool :
           args = [ candidate_location |-> c, job_location |-> j, geo1 |-> g1, geo2 |-> g2 ]
    /\ ret = <<>>
    /\ users_sheet = <<>>

\* calculate_location_score returns on every path
CalculateLocationScore ==
    /\ pc = "call"
    /\ op = "calculate_location_score"
    /\ pc' = "returned"
    /\ ret' = calculate_location_score(args.candidate_location, args.job_location,
                                       args.geo1, args.geo2)
    /\ UNCHANGED <<op, args, users_sheet>>

NextLocation == CalculateLocationScore

SpecLocation == InitLocation /\ [][NextLocation]_vars

(***************************************************************************)
(* Direct calls: calculate_skills_match(candidate_skills, required_skills),*)
(* then once more after the candidate has gained one skill                 *)
(***************************************************************************)

\* the largest skill collection handed to calculate_skills_match
MaxSkills == 3

SkillPool == { "python", "Python", "sql", "SQL", "aws" }

SkillSets == { S \in SUBSET SkillPool : Cardinality(S) <= MaxSkills }

InitSkills ==
    /\ pc = "call"
    /\ op = "calculate_skills_match"
    /\ \E c \in SkillSets, r \in SkillSets, x \in SkillPool :
           args = [ candidate_skills |-> c, required_skills |-> r, added |-> x ]
    /\ ret = <<>>
    /\ users_sheet = <<>>

CalculateSkillsMatch ==
    /\ pc = "call"
    /\ op = "calculate_skills_match"
    /\ pc' = "returned"
    /\ ret' = [ score |-> calculate_skills_match(args.candidate_skills,
                                                 args.required_skills) ]
    /\ UNCHANGED <<op, args, users_sheet>>

\* the same call for the candidate's skills plus args.added
CalculateSkillsMatchAgain ==
    /\ pc = "returned"
    /\ op = "calculate_skills_match"
    /\ pc' = "returned again"
    /\ ret' = [ score |-> ret.score,
                score_added |-> calculate_skills_match(
                                    args.candidate_skills \cup {args.added},
                                    args.required_skills) ]
    /\ UNCHANGED <<op, args, users_sheet>>

NextSkills == CalculateSkillsMatch \/ CalculateSkillsMatchAgain

SpecSkills == InitSkills /\ [][NextSkills]_vars

(***************************************************************************)
(* Properties of find_matches (specification Spec)                         *)
(***************************************************************************)

Returned == op = "find_matches" /\ pc = "returned"

Min(a, b) == IF a <= b THEN a ELSE b

\* the rows of candidates_df whose full_name is present and not empty
NamedRows ==
    { i \in 1..Len(args.candidates_df) :
        /\ "full_name" \in DOMAIN args.candidates_df[i]
        /\ args.candidates_df[i].full_name # "" }

\* the four scores computed for the candidate of row i
SkillsScore(i) ==
    calculate_skills_match(
        candidate_skills_of(args.candidates_df[i], args.caps[i].nlp),
        required_skills_of(args.job_data, args.nlp_job))

SemanticScore(i) ==
    calculate_semantic_similarity(
        job_profile_of(args.job_data), candidate_profile_of(args.candidates_df[i]),
        args.caps[i].encode)

ExperienceScore(i) ==
    experience_score_of(candidate_experience_years_of(args.candidates_df[i]),
                        required_experience_of(args.job_data))

LocationScore(i) ==
    calculate_location_score(
        Get(args.candidates_df[i], "location", ""), Get(args.job_data, "location", ""),
        args.caps[i].geo1, args.caps[i].geo2)

\* 0.35 s + 0.30 m + 0.20 e + 0.15 l as one fraction
WeightedSum(s, m, e, l) ==
    << 35 * s[1] * m[2] * e[2] * l[2] + 30 * m[1] * s[2] * e[2] * l[2]
         + 20 * e[1] * s[2] * m[2] * l[2] + 15 * l[1] * s[2] * m[2] * e[2],
       100 * s[2] * m[2] * e[2] * l[2] >>

\* p hundredths of a percent is 100 x rounded to two decimals: no other
\* count of hundredths is nearer to 10000 x
IsRoundedPct(p, x) == 2 * Abs(10000 * x[1] - p * x[2]) <= x[2]

\* rec with the field key set to val
With(rec, key, val) ==
    [ k \in DOMAIN rec \cup {key} |-> IF k = key THEN val ELSE rec[k] ]

\* what find_matches returns when the job's salary_range and every
\* candidate's expected_salary are replaced
ReturnWithSalaries(salary_range, expected_salary) ==
    slice_top_n(
        sorted_matches_of(
            With(args.job_data, "salary_range", salary_range),
            [ i \in DOMAIN args.candidates_df |->
                With(args.candidates_df[i], "expected_salary", expected_salary) ],
            args.nlp_job, args.caps),
        args.top_n)

Percentages(matches) ==
    [ i \in DOMAIN matches |-> <<matches[i].row, matches[i].match_percentage>> ]

\* C1: every returned match_percentage is 100 x (0.35 skills + 0.30 semantic
\* + 0.20 experience + 0.15 location) rounded to two decimals, for the scores
\* of that candidate, and it stays the same when only salary_range and
\* expected_salary are changed.
C1_WeightedPercentage ==
    Returned =>
        /\ \A k \in DOMAIN ret.value :
               LET i == ret.value[k].row
               IN  IsRoundedPct(ret.value[k].match_percentage,
                                WeightedSum(SkillsScore(i), SemanticScore(i),
                                            ExperienceScore(i), LocationScore(i)))
        /\ Percentages(ReturnWithSalaries("$1 - $2", "1")) = Percentages(ret.value)

\* a returned result whose weighted sum needed rounding, for a job with a
\* salary range and a candidate with an expected salary
C1_Witness ==
    /\ Returned
    /\ Get(args.job_data, "salary_range", "") # ""
    /\ \E k \in DOMAIN ret.value :
           LET i == ret.value[k].row
               x == WeightedSum(SkillsScore(i), SemanticScore(i),
                                ExperienceScore(i), LocationScore(i))
           IN  /\ (10000 * x[1]) % x[2] # 0
               /\ Get(args.candidates_df[i], "expected_salary", "") # ""

\* C2: the returned list is in non-increasing order of match_percentage, and
\* results with equal match_percentage keep the order of their rows.
C2_SortedStable ==
    Returned =>
        \A i, j \in DOMAIN ret.value :
            i < j =>
                /\ ret.value[i].match_percentage >= ret.value[j].match_percentage
                /\ ret.value[i].match_percentage = ret.value[j].match_percentage
                       => ret.value[i].row < ret.value[j].row

\* two different candidates tie and are returned in the order of their rows
C2_Witness ==
    /\ Returned
    /\ Len(ret.value) = 2
    /\ ret.value[1].match_percentage = ret.value[2].match_percentage
    /\ ret.value[1].candidate_id # ret.value[2].candidate_id

\* the returned entries are the head of the sorted list and nothing left out
\* scores higher than a returned entry
IsHeadOfSorted ==
    /\ \A k \in DOMAIN ret.value : ret.value[k] = ret.matches[k]
    /\ \A k \in DOMAIN ret.matches :
           k > Len(ret.value) =>
               \A h \in DOMAIN ret.value :
                   ret.value[h].match_percentage >= ret.matches[k].match_percentage

\* C3 as stated: for every top_n the returned list has min(top_n, number of
\* named candidates) entries, the first top_n of the sorted list.
C3_AsStated ==
    Returned =>
        /\ Len(ret.value) = Min(args.top_n, Cardinality(NamedRows))
        /\ IsHeadOfSorted

\* C3: for every top_n >= 0 the returned list has min(top_n, number of named
\* candidates) entries, and they are the first top_n entries of the sorted
\* list of all named candidates.
C3_TopN ==
    (Returned /\ args.top_n >= 0) =>
        /\ Len(ret.value) = Min(args.top_n, Cardinality(NamedRows))
        /\ Len(ret.matches) = Cardinality(NamedRows)
        /\ IsHeadOfSorted

\* top_n cuts the list: a named candidate is left out
C3_Witness ==
    /\ Returned
    /\ args.top_n >= 1
    /\ Len(ret.value) = args.top_n
    /\ Cardinality(NamedRows) > args.top_n

CapabilityFails(i) ==
    \/ args.caps[i].nlp.raises
    \/ args.caps[i].encode.raises
    \/ args.caps[i].geo1.raises
    \/ args.caps[i].geo2.raises

\* C5: when a capability raises while one candidate is scored, find_matches
\* still returns, and its list holds the results of the other named
\* candidates.
C5_FailureIsolated ==
    (op = "find_matches" /\ pc # "call" /\ ~args.nlp_job.raises) =>
        /\ pc = "returned"
        /\ \A i \in NamedRows :
               ~CapabilityFails(i) => \E k \in DOMAIN ret.matches : ret.matches[k].row = i

\* C6: in every returned result skills_match, experience_match and
\* location_match lie in [0,100], and so does match_percentage when the
\* cosine similarity of that candidate lies in [0,1].
C6_Ranges ==
    Returned =>
        \A k \in DOMAIN ret.value :
            LET r == ret.value[k]
                cosine == args.caps[r.row].encode.cosine
            IN  /\ r.skills_match \in 0..10000
                /\ r.experience_match \in 0..10000
                /\ r.location_match \in 0..10000
                /\ (0 <= cosine[1] /\ cosine[1] <= cosine[2])
                       => r.match_percentage \in 0..10000

\* a result at the upper end of the three component ranges, and a result
\* whose cosine is negative and whose match_percentage is below 0
C6_Witness ==
    /\ Returned
    /\ \E k \in DOMAIN ret.value :
           /\ ret.value[k].skills_match = 10000
           /\ ret.value[k].experience_match = 10000
           /\ ret.value[k].location_match = 10000
    /\ \E k \in DOMAIN ret.value :
           /\ args.caps[ret.value[k].row].encode.cosine[1] < 0
           /\ ret.value[k].match_percentage < 0

(***************************************************************************)
(* Properties of calculate_location_score (specification SpecLocation)     *)
(***************************************************************************)

LocationReturned == op = "calculate_location_score" /\ pc = "returned"

EitherLocationMissing ==
    \/ args.candidate_location \in {None, ""}
    \/ args.job_location \in {None, ""}

EitherLocationRemote ==
    \/ Contains(Lower(args.candidate_location), "remote")
    \/ Contains(Lower(args.job_location), "remote")

GeocoderRaises == args.geo1.raises \/ args.geo2.raises

SameLocationIgnoringCase == Lower(args.candidate_location) = Lower(args.job_location)

\* a whitespace-delimited token of the candidate location occurs in the job location
SharesToken ==
    \E token \in Split(Lower(args.candidate_location)) :
        Contains(Lower(args.job_location), token)

\* the string comparison with its 0.7 tier
FullStringFallback ==
    IF SameLocationIgnoringCase THEN <<1, 1>>
    ELSE IF SharesToken THEN <<7, 10>>
    ELSE <<3, 10>>

\* C7: when the geocoder does not raise, the score follows the ordered
\* decision list (missing -> 0.5; remote -> 1.0; both geocoded -> 1.0, 0.8,
\* 0.5, 0.2 by distance under 50, 100, 500 km or beyond; otherwise 1.0, 0.7,
\* 0.3 by string comparison), and it is one of 0.2, 0.3, 0.5, 0.7, 0.8, 1.0.
C7_LocationDecisionList ==
    (LocationReturned /\ ~GeocoderRaises) =>
        /\ EitherLocationMissing => ret = <<1, 2>>
        /\ (~EitherLocationMissing /\ EitherLocationRemote) => ret = <<1, 1>>
        /\ (~EitherLocationMissing /\ ~EitherLocationRemote
                /\ args.geo1.found /\ args.geo2.found) =>
               LET d == Abs(args.geo1.km - args.geo2.km)
               IN  /\ d < 50 => ret = <<1, 1>>
                   /\ (50 <= d /\ d < 100) => ret = <<4, 5>>
                   /\ (100 <= d /\ d < 500) => ret = <<1, 2>>
                   /\ 500 <= d => ret = <<1, 5>>
        /\ (~EitherLocationMissing /\ ~EitherLocationRemote
                /\ ~(args.geo1.found /\ args.geo2.found)) =>
               ret = FullStringFallback
        /\ ret \in { <<1, 5>>, <<3, 10>>, <<1, 2>>, <<7, 10>>, <<4, 5>>, <<1, 1>> }

\* a remote location scores 1.0 although both places geocode 500 km or more
\* apart
C7_Witness ==
    /\ LocationReturned
    /\ ~GeocoderRaises
    /\ ~EitherLocationMissing
    /\ EitherLocationRemote
    /\ args.geo1.found
    /\ args.geo2.found
    /\ Abs(args.geo1.km - args.geo2.km) >= 500
    /\ ret = <<1, 1>>

\* the geocoder raises for two locations that are neither missing nor remote
RaisedOnPlainLocations ==
    /\ LocationReturned
    /\ GeocoderRaises
    /\ ~EitherLocationMissing
    /\ ~EitherLocationRemote

\* C8 as stated: when the geocoder raises, the score is the same string
\* comparison as for an unresolved location: 1.0, 0.7 or 0.3.
C8_AsStated == RaisedOnPlainLocations => ret = FullStringFallback

\* C8: when the geocoder raises for two locations that are neither missing
\* nor remote, calculate_location_score still returns, and the score is 1.0
\* when the two are equal ignoring case and 0.3 otherwise; a shared token
\* does not raise it to 0.7.
C8_RaiseFallback ==
    /\ (op = "calculate_location_score" /\ pc # "call") => pc = "returned"
    /\ RaisedOnPlainLocations =>
           ret = IF SameLocationIgnoringCase THEN <<1, 1>> ELSE <<3, 10>>

\* the geocoder raised, the locations share a token without being equal,
\* and the score is 0.3
C8_Witness ==
    /\ RaisedOnPlainLocations
    /\ ~SameLocationIgnoringCase
    /\ SharesToken
    /\ ret = <<3, 10>>

(***************************************************************************)
(* Properties of calculate_skills_match (specification SpecSkills)         *)
(***************************************************************************)

\* the lowercased sets C and R
LowerCandidateSkills == { Lower(x) : x \in args.candidate_skills }

LowerRequiredSkills == { Lower(x) : x \in args.required_skills }

SkillsReturned == op = "calculate_skills_match" /\ pc # "call"

\* C9: the score is 0.0 when either collection is empty; otherwise it is
\* |C n R| / |R| for the lowercased sets, lies in [0,1], and is 1.0 exactly
\* when every required skill is held by the candidate.
C9_SkillsMatch ==
    SkillsReturned =>
        IF args.candidate_skills = {} \/ args.required_skills = {}
        THEN ret.score[1] = 0
        ELSE /\ ret.score[1] * Cardinality(LowerRequiredSkills)
                    = Cardinality(LowerCandidateSkills \cap LowerRequiredSkills)
                          * ret.score[2]
             /\ 0 <= ret.score[1]
             /\ ret.score[1] <= ret.score[2]
             /\ ret.score[1] = ret.score[2]
                    <=> LowerRequiredSkills \subseteq LowerCandidateSkills

\* the score is 1.0 for a candidate who holds every required skill, in
\* another spelling, and more skills besides
C9_Witness ==
    /\ SkillsReturned
    /\ ret.score = <<1, 1>>
    /\ args.required_skills \cap args.candidate_skills = {}
    /\ Cardinality(LowerCandidateSkills) > Cardinality(LowerRequiredSkills)

SkillsReturnedAgain == op = "calculate_skills_match" /\ pc = "returned again"

\* C10: for a fixed required set, adding a skill of the required set never
\* lowers the score, and adding any other skill leaves it as it was, also
\* when the candidate had no skill before.
C10_Monotonic ==
    SkillsReturnedAgain =>
        /\ RatLeq(ret.score, ret.score_added)
        /\ Lower(args.added) \notin LowerRequiredSkills => ret.score_added = ret.score

\* a skill outside the required set was added to an empty candidate set
\* and the score stayed 0.0
C10_Witness ==
    /\ SkillsReturnedAgain
    /\ args.required_skills # {}
    /\ args.candidate_skills = {}
    /\ Lower(args.added) \notin LowerRequiredSkills
    /\ ret.score_added = <<0, 1>>

(***************************************************************************)
(* Experience in find_matches (specification Spec)                         *)
(***************************************************************************)

\* s is a bare number: a non-empty run of digits
IsBareNumber(s) == s # "" /\ \A i \in 1..Len(s) : IsDigit(CharAt(s, i))

\* C11: a candidate whose years_experience field holds a bare number N, with
\* no experience phrase in the profile summary, has N resolved years, and
\* against a requirement of R > N years the experience score is N/R (3/5 =
\* 0.6 for "3" against 5 years).
C11_BareYearsField ==
    Returned =>
        \A k \in DOMAIN ret.value :
            LET candidate == args.candidates_df[ret.value[k].row]
                field == Get(candidate, "years_experience", "")
                required == required_experience_of(args.job_data)
            IN  (IsBareNumber(field) /\ Get(candidate, "profile_summary", "") = "") =>
                    /\ ret.value[k].years_experience = ParseInt(field)
                    /\ ParseInt(field) < required =>
                           IsRoundedPct(ret.value[k].experience_match,
                                        <<ParseInt(field), required>>)

(***************************************************************************)
(* calculate_salary_match (specification SpecSalary)                       *)
(***************************************************************************)

\* s.replace(c, '') for a single character c
RECURSIVE Remove(_, _)
Remove(s, c) ==
    IF s = "" THEN ""
    ELSE IF CharAt(s, 1) = c THEN Remove(Tail(s), c)
         ELSE CharAt(s, 1) \o Remove(Tail(s), c)

\* re.sub(r'[^\d]', '', s): the digits of s, in order
RECURSIVE KeepDigits(_)
KeepDigits(s) ==
    IF s = "" THEN ""
    ELSE IF IsDigit(CharAt(s, 1)) THEN CharAt(s, 1) \o KeepDigits(Tail(s))
         ELSE KeepDigits(Tail(s))

\* the first digit at a position >= e that the lazy .*? can reach from e
\* (the dot does not match a newline), or 0
RECURSIVE NextDigit(_, _)
NextDigit(t, e) ==
    IF e > Len(t) THEN 0
    ELSE IF IsDigit(CharAt(t, e)) THEN e
    ELSE IF CharAt(t, e) = "\n" THEN 0
    ELSE NextDigit(t, e + 1)

\* (\d+).*?(\d+) matches at position i: the greedy first run is followed by a
\* reachable digit, or it gives back its last digit to the second group
SalaryRangeAt(t, i) ==
    /\ IsDigit(CharAt(t, i))
    /\ \/ NextDigit(t, DigitsEnd(t, i)) # 0
       \/ DigitsEnd(t, i) - i >= 2

\* re.search(r'(\d+).*?(\d+)', t): <<group(1), group(2)>> of the leftmost
\* match, or <<>> when there is none
salary_search(t) ==
    IF \E i \in 1..Len(t) : SalaryRangeAt(t, i)
    THEN LET i == CHOOSE i \in 1..Len(t) :
                      SalaryRangeAt(t, i) /\ \A j \in 1..(i - 1) : ~SalaryRangeAt(t, j)
             e == DigitsEnd(t, i)
             j == NextDigit(t, e)
         IN  IF j # 0
             THEN <<SubSeq(t, i, e - 1), SubSeq(t, j, DigitsEnd(t, j) - 1)>>
             ELSE <<SubSeq(t, i, e - 2), CharAt(t, e - 1)>>
    ELSE <<>>

\* the upper end of the range ignored: any expectation of at least min scores 1
salary_ratio_no_upper(min_salary, max_salary, candidate_salary) ==
    IF min_salary <= candidate_salary THEN Rat(1, 1)
    ELSE Rat(candidate_salary, min_salary)

\* lines 294-299: the score of a parsed range and a parsed expectation
salary_ratio(min_salary, max_salary, candidate_salary) ==
    IF min_salary <= candidate_salary /\ candidate_salary <= max_salary THEN Rat(1, 1)
    ELSE IF candidate_salary < min_salary THEN Rat(candidate_salary, min_salary)
    ELSE Rat(max_salary, candidate_salary)

\* calculate_salary_match(candidate_expected, job_salary_range); int('') of a
\* digit-free expectation raises ValueError, which the bare except turns
\* into 0.5
calculate_salary_match(candidate_expected, job_salary_range) ==
    IF ~Truthy(candidate_expected) \/ ~Truthy(job_salary_range) THEN Rat(1, 2)
    ELSE LET salary_match == salary_search(Remove(job_salary_range, ","))
         IN  IF salary_match # <<>>
             THEN IF KeepDigits(candidate_expected) = "" THEN Rat(1, 2)
                  ELSE salary_ratio(ParseInt(salary_match[1]),
                                    ParseInt(salary_match[2]),
                                    ParseInt(KeepDigits(candidate_expected)))
             ELSE Rat(1, 2)

\* the job_salary_range values drawn
SalaryRangePool ==
    { None, "", "$80,000 - $120,000", "80000-120000", "80k to 120k", "100000",
      "5", "competitive", "120000 - 80000", "0 - 0", "0 - 50000",
      "up to 90000", "80000\n120000" }

\* the candidate_expected values drawn
ExpectedSalaryPool ==
    { None, "", "100000", "60000", "150000", "$90,000", "negotiable", "0",
      "50000", "5", "95k" }

InitSalary ==
    /\ pc = "call"
    /\ op = "calculate_salary_match"
    /\ \E c \in ExpectedSalaryPool, r \in SalaryRangePool :
           args = [ candidate_expected |-> c, job_salary_range |-> r ]
    /\ ret = <<>>
    /\ users_sheet = <<>>

CalculateSalaryMatch ==
    /\ pc = "call"
    /\ op = "calculate_salary_match"
    /\ pc' = "returned"
    /\ ret' = [ score |-> calculate_salary_match(args.candidate_expected,
                                                 args.job_salary_range) ]
    /\ UNCHANGED <<op, args, users_sheet>>

NextSalary == CalculateSalaryMatch

SpecSalary == InitSalary /\ [][NextSalary]_vars

SalaryReturned == op = "calculate_salary_match" /\ pc = "returned"

\* both inputs are present
SalaryInputsPresent == Truthy(args.candidate_expected) /\ Truthy(args.job_salary_range)

\* the maximal runs of digits of s, as a set of <<first, last>> positions
DigitRuns(s) ==
    { w \in (1..Len(s)) \X (1..Len(s)) :
        /\ w[1] <= w[2]
        /\ \A k \in w[1]..w[2] : IsDigit(CharAt(s, k))
        /\ (w[1] = 1 \/ ~IsDigit(CharAt(s, w[1] - 1)))
        /\ (w[2] = Len(s) \/ ~IsDigit(CharAt(s, w[2] + 1))) }

\* the text holds a digit
HasDigit(s) == \E k \in 1..Len(s) : IsDigit(CharAt(s, k))

\* the integers the function parsed from its two inputs
ParsedRange == salary_search(Remove(args.job_salary_range, ","))
ParsedMin == ParseInt(ParsedRange[1])
ParsedMax == ParseInt(ParsedRange[2])
ParsedExpected == ParseInt(KeepDigits(args.candidate_expected))

\* C12: when both inputs are present and parse to min, max and c, the score
\* is 1 if min <= c <= max, else c/min if c < min, else max/c; it lies in
\* [0,1], no denominator is zero, and "$80,000 - $120,000" scores 1.0 for
\* "100000" and 0.75 for "60000".
C12_SalaryRatio ==
    (SalaryReturned /\ SalaryInputsPresent /\ ParsedRange # <<>>
         /\ HasDigit(args.candidate_expected)) =>
        /\ ret.score[2] > 0
        /\ 0 <= ret.score[1] /\ ret.score[1] <= ret.score[2]
        /\ (ParsedMin <= ParsedExpected /\ ParsedExpected <= ParsedMax) =>
               ret.score = <<1, 1>>
        /\ ParsedExpected < ParsedMin =>
               /\ ParsedMin > 0
               /\ ret.score[1] * ParsedMin = ParsedExpected * ret.score[2]
        /\ (ParsedExpected >= ParsedMin /\ ParsedExpected > ParsedMax) =>
               /\ ParsedExpected > 0
               /\ ret.score[1] * ParsedExpected = ParsedMax * ret.score[2]
        /\ args.job_salary_range = "$80,000 - $120,000" =>
               /\ ParsedMin = 80000 /\ ParsedMax = 120000
               /\ args.candidate_expected = "100000" => ret.score = <<1, 1>>
               /\ args.candidate_expected = "60000" => ret.score = <<3, 4>>

\* an expectation above the posted range has been scored as max/c
C12_Witness ==
    /\ SalaryReturned
    /\ args.job_salary_range = "$80,000 - $120,000"
    /\ args.candidate_expected = "150000"
    /\ ret.score = <<4, 5>>

\* C13: the score is 0.5 whenever an input is missing, the range text does
\* not hold two separate runs of digits (a single number, say), or the
\* expectation holds no digit.
C13_NeutralOnParseFailure ==
    SalaryReturned =>
        ((\/ ~SalaryInputsPresent
          \/ Cardinality(DigitRuns(Remove(args.job_salary_range, ","))) < 2
          \/ ~HasDigit(args.candidate_expected)) =>
            ret.score = <<1, 2>>)

(***************************************************************************)
(* get_skill_recommendations (specification SpecRecommend)                 *)
(***************************************************************************)

\* the slice [:5] of line 275
MaxRecommendations == 5

web_triggers == {"python", "java", "javascript"}

web_frameworks == {"django", "flask", "react", "angular", "spring"}

data_triggers == {"python", "r", "sql"}

data_tools == {"tensorflow", "pytorch", "pandas", "scikit-learn"}

\* str(value) of a field that may be absent or None
Str(v) == IF v = None THEN "None" ELSE v

\* the text whose skills are extracted (lines 251-254)
current_skills_text(candidate_data) ==
    Str(Get(candidate_data, "skills", "")) \o " "
        \o Str(Get(candidate_data, "profile_summary", ""))

\* the web frameworks proposed whatever the candidate's skills are
web_recommendations_untriggered(current_skills) ==
    web_frameworks \ current_skills

\* lines 265-267
web_recommendations(current_skills) ==
    IF current_skills \cap web_triggers # {}
    THEN web_frameworks \ current_skills
    ELSE {}

\* lines 270-272
data_recommendations(current_skills) ==
    IF current_skills \cap data_triggers # {}
    THEN data_tools \ current_skills
    ELSE {}

\* set(recommendations) of line 275, before it is listed and sliced
recommendation_set(candidate_data, nlp) ==
    LET current_skills == extract_skills(current_skills_text(candidate_data), nlp)
    IN  web_recommendations(current_skills) \cup data_recommendations(current_skills)

\* list(set(recommendations))[:5]: the set is listed in the interpreter's
\* hash order, which the inputs do not fix, so every listing of any
\* Min(5, size) of its members is a possible result
recommendation_lists(candidate_data, nlp) ==
    LET all == recommendation_set(candidate_data, nlp)
        n == Min(MaxRecommendations, Cardinality(all))
    IN  { s \in [1..n -> all] : \A i, j \in 1..n : s[i] = s[j] => i = j }

\* the candidate_data records drawn
RecommendationPool ==
    { [ skills |-> "Python", profile_summary |-> "" ],
      [ skills |-> "python, django, flask", profile_summary |-> "pandas and sql" ],
      [ skills |-> "Java", profile_summary |-> "spring boot" ],
      [ skills |-> "SQL", profile_summary |-> "" ],
      [ skills |-> "html, css", profile_summary |-> "figma" ],
      [ skills |-> "javascript", profile_summary |-> "react, angular, django, flask, spring" ],
      [ skills |-> None, profile_summary |-> "matlab" ],
      [ profile_summary |-> "java and mysql; tensorflow, pytorch, scikit-learn" ],
      [ k \in {} |-> "" ] }

\* the entity recognizer's outcomes drawn
RecommendationNlpPool ==
    { NoEntities, NlpRaises, Entities({<<"Django", "PRODUCT">>, <<"Berlin", "GPE">>}) }

InitRecommend ==
    /\ pc = "call"
    /\ op = "get_skill_recommendations"
    /\ \E c \in RecommendationPool, n \in RecommendationNlpPool :
           args = [ candidate_data |-> c, nlp |-> n ]
    /\ ret = <<>>
    /\ users_sheet = <<>>

GetSkillRecommendationsReturns ==
    /\ pc = "call"
    /\ op = "get_skill_recommendations"
    /\ ~extract_skills_raises(args.nlp)
    /\ pc' = "returned"
    /\ \E recommendations \in recommendation_lists(args.candidate_data, args.nlp) :
           ret' = [ value |-> recommendations ]
    /\ UNCHANGED <<op, args, users_sheet>>

GetSkillRecommendationsRaises ==
    /\ pc = "call"
    /\ op = "get_skill_recommendations"
    /\ extract_skills_raises(args.nlp)
    /\ pc' = "raised"
    /\ UNCHANGED <<op, args, ret, users_sheet>>

NextRecommend == GetSkillRecommendationsReturns \/ GetSkillRecommendationsRaises

SpecRecommend == InitRecommend /\ [][NextRecommend]_vars

RecommendReturned == op = "get_skill_recommendations" /\ pc = "returned"

\* the candidate's extracted SkillSet
CurrentSkills == extract_skills(current_skills_text(args.candidate_data), args.nlp)

\* C15: the recommendations are at most 5 distinct skills the candidate's
\* SkillSet lacks; a web framework appears only if the set meets {python,
\* java, javascript}, a data tool only if it meets {python, r, sql}, and
\* nothing else appears; with neither trigger the result is empty.
C15_Recommendations ==
    RecommendReturned =>
        LET current == CurrentSkills
            web_triggered == current \cap {"python", "java", "javascript"} # {}
            data_triggered == current \cap {"python", "r", "sql"} # {}
        IN  /\ Len(ret.value) <= 5
            /\ \A i, j \in DOMAIN ret.value : ret.value[i] = ret.value[j] => i = j
            /\ \A i \in DOMAIN ret.value :
                   /\ ret.value[i] \notin current
                   /\ \/ /\ ret.value[i] \in {"django", "flask", "react", "angular", "spring"}
                         /\ web_triggered
                      \/ /\ ret.value[i] \in {"tensorflow", "pytorch", "pandas", "scikit-learn"}
                         /\ data_triggered
            /\ (~web_triggered /\ ~data_triggered) => ret.value = <<>>

\* nine skills were proposed for a Python-only candidate and five of them,
\* from both lists, were returned
C15_Witness ==
    /\ RecommendReturned
    /\ CurrentSkills = {"python"}
    /\ Len(ret.value) = 5
    /\ ret.value[1] = "pytorch"
    /\ ret.value[5] = "django"

(***************************************************************************)
(* extract_experience_years (specification SpecExperience)                 *)
(***************************************************************************)

\* how many phrases a drawn text is made of, at most
MaxPhrases == 2

\* the phrases the drawn texts are made of: one for each pattern, the range
\* form, a zero, and a phrase no pattern matches
PhrasePool ==
    { "3 years of experience", "Experience of 4 years", "7+ Years Professional",
      "6 yrs exp", "2 to 9 years", "0 year experience", "12years experience",
      "senior engineer" }

\* the phrases of a sequence, separated by single spaces
RECURSIVE JoinPhrases(_)
JoinPhrases(phrases) ==
    IF phrases = <<>> THEN ""
    ELSE IF Len(phrases) = 1 THEN phrases[1]
    ELSE phrases[1] \o " " \o JoinPhrases(Tail(phrases))

InitExperience ==
    /\ pc = "call"
    /\ op = "extract_experience_years"
    /\ \E phrases \in SeqsUpTo(PhrasePool, MaxPhrases) :
           args = [ text |-> JoinPhrases(phrases) ]
    /\ ret = <<>>
    /\ users_sheet = <<>>

ExtractExperienceYears ==
    /\ pc = "call"
    /\ op = "extract_experience_years"
    /\ pc' = "returned"
    /\ ret' = [ value |-> extract_experience_years(args.text) ]
    /\ UNCHANGED <<op, args, users_sheet>>

NextExperience == ExtractExperienceYears

SpecExperience == InitExperience /\ [][NextExperience]_vars

ExperienceReturned == op = "extract_experience_years" /\ pc = "returned"

\* C16: the result is the captured integer of the first of the four
\* single-number patterns, in their fixed order, that matches anywhere in the
\* text; only when none of them matches, the floor of the mean of the range
\* 'N1 to N2 years'; 0 when nothing matches; never negative.
C16_FirstPatternWins ==
    ExperienceReturned =>
        LET t == Lower(args.text)
            none == \A k \in 1..4 : Search(k, t) = 0
        IN  /\ ret.value \in Nat
            /\ \A k \in 1..4 :
                   (Search(k, t) # 0 /\ \A h \in 1..(k - 1) : Search(h, t) = 0) =>
                       ret.value = Group1(k, t, Search(k, t))
            /\ (none /\ SearchRange(t) # 0) =>
                   \E n1, n2 \in 0..99 :
                       /\ n1 = ParseInt(SubSeq(t, SearchRange(t),
                                               DigitsEnd(t, SearchRange(t)) - 1))
                       /\ n2 = ParseInt(SubSeq(t, RangeSecondStart(t, SearchRange(t)),
                                  DigitsEnd(t, RangeSecondStart(t, SearchRange(t))) - 1))
                       /\ 2 * ret.value <= n1 + n2
                       /\ n1 + n2 < 2 * ret.value + 2
            /\ (none /\ SearchRange(t) = 0) => ret.value = 0
            /\ args.text = "6 yrs exp 3 years of experience" => ret.value = 3
            /\ args.text = "7+ Years Professional Experience of 4 years" => ret.value = 4
            /\ args.text = "2 to 9 years 6 yrs exp" => ret.value = 6
            /\ args.text = "senior engineer 2 to 9 years" => ret.value = 5
            /\ args.text = "senior engineer" => ret.value = 0

\* a text matched by the fourth pattern first and by the first pattern later
\* has yielded the first pattern's number
C16_Witness ==
    /\ ExperienceReturned
    /\ args.text = "6 yrs exp 3 years of experience"
    /\ Search(4, Lower(args.text)) = 1
    /\ Search(1, Lower(args.text)) = 11
    /\ ret.value = 3

(***************************************************************************)
(* The experience score of find_matches (specification SpecExperienceScore)*)
(***************************************************************************)

\* the largest number of years drawn
MaxYears == 7

\* both numbers of years come from extract_experience_years, which returns
\* integers >= 0
InitExperienceScore ==
    /\ pc = "call"
    /\ op = "experience_score"
    /\ \E c \in 0..MaxYears, r \in 0..MaxYears :
           args = [ candidate_experience_years |-> c, required_experience |-> r ]
    /\ ret = <<>>
    /\ users_sheet = <<>>

ExperienceScoreStep ==
    /\ pc = "call"
    /\ op = "experience_score"
    /\ pc' = "returned"
    /\ ret' = [ experience_score |-> experience_score_of(args.candidate_experience_years,
                                                         args.required_experience) ]
    /\ UNCHANGED <<op, args, users_sheet>>

NextExperienceScore == ExperienceScoreStep

SpecExperienceScore == InitExperienceScore /\ [][NextExperienceScore]_vars

ExperienceScoreReturned == op = "experience_score" /\ pc = "returned"

\* C17: experience_score is 1 when the required years are 0, 1 when the
\* candidate's years reach the required years, and candidate/required
\* otherwise; it lies in [0,1], is below 1 exactly when the candidate's years
\* are below the required years, and no division is by zero.
C17_ExperienceScore ==
    ExperienceScoreReturned =>
        LET c == args.candidate_experience_years
            r == args.required_experience
            s == ret.experience_score
        IN  /\ s[2] > 0
            /\ r = 0 => s = <<1, 1>>
            /\ c >= r => s = <<1, 1>>
            /\ (r # 0 /\ c < r) => s[1] * r = c * s[2]
            /\ 0 <= s[1] /\ s[1] <= s[2]
            /\ s[1] < s[2] <=> c < r

\* three years against a requirement of five have scored 3/5
C17_Witness ==
    /\ ExperienceScoreReturned
    /\ args.candidate_experience_years = 3
    /\ args.required_experience = 5
    /\ ret.experience_score = <<3, 5>>

(***************************************************************************)
(* The skill collections of a MatchResult (specification Spec)             *)
(***************************************************************************)

\* C18: in every returned MatchResult, with C the candidate's SkillSet and R
\* the required SkillSet, matching_skills = C \cap R, missing_skills = R \ C
\* and additional_skills = C \ R; the three are pairwise disjoint, matching
\* and missing make up R, matching and additional make up C, and when C and
\* R are not empty skills_match is 100 * |matching| / (|matching| +
\* |missing|) rounded to two decimals.
C18_SkillCollections ==
    Returned =>
        \A k \in DOMAIN ret.value :
            LET result == ret.value[k]
                C == candidate_skills_of(args.candidates_df[result.row],
                                         args.caps[result.row].nlp)
                R == required_skills_of(args.job_data, args.nlp_job)
                matching == result.matching_skills
                missing == result.missing_skills
                additional == result.additional_skills
            IN  /\ matching = { x \in C : x \in R }
                /\ missing = { x \in R : x \notin C }
                /\ additional = { x \in C : x \notin R }
                /\ matching \cap missing = {}
                /\ matching \cap additional = {}
                /\ missing \cap additional = {}
                /\ matching \cup missing = R
                /\ matching \cup additional = C
                /\ (C # {} /\ R # {}) =>
                       IsRoundedPct(result.skills_match,
                                    <<Cardinality(matching),
                                      Cardinality(matching) + Cardinality(missing)>>)

\* a returned result has a matching, a missing and an additional skill, and
\* a skills_match that is not a whole percentage
C18_Witness ==
    /\ Returned
    /\ \E k \in DOMAIN ret.value :
           /\ ret.value[k].matching_skills # {}
           /\ ret.value[k].missing_skills # {}
           /\ ret.value[k].additional_skills # {}
           /\ ret.value[k].skills_match = 6667

(***************************************************************************)
(* register_candidate (specification SpecRegister): calls run one at a     *)
(* time against the users sheet, users_sheet being the rows                *)
(* worksheet.get_all_values() returns, the header row first.               *)
(***************************************************************************)

\* every character of s is one of the characters of alphabet
AllIn(s, alphabet) == \A i \in 1..Len(s) : IndexIn(alphabet, CharAt(s, i)) # 0

\* what a pattern ending in $ has to match: $ also matches just before a
\* newline that ends the string
BeforeDollar(s) ==
    IF s # "" /\ CharAt(s, Len(s)) = "\n" THEN SubSeq(s, 1, Len(s) - 1) ELSE s

\* re.match(r'^[a-zA-Z0-9_]{3,20}$', username) is not None
validate_username(username) ==
    LET body == BeforeDollar(username)
    IN  /\ Len(body) >= 3
        /\ Len(body) <= 20
        /\ AllIn(body, LowerLetters \o UpperLetters \o Digits \o "_")

\* re.match(r'^[a-zA-Z0-9._%+-]+@[a-zA-Z0-9.-]+\.[a-zA-Z]{2,}$', email) is
\* not None
validate_email(email) ==
    LET body == BeforeDollar(email)
    IN  \E at \in 2..Len(body) : \E dot \in (at + 2)..(Len(body) - 2) :
            /\ CharAt(body, at) = "@"
            /\ AllIn(SubSeq(body, 1, at - 1),
                     LowerLetters \o UpperLetters \o Digits \o "._%+-")
            /\ AllIn(SubSeq(body, at + 1, dot - 1),
                     LowerLetters \o UpperLetters \o Digits \o ".-")
            /\ CharAt(body, dot) = "."
            /\ AllIn(SubSeq(body, dot + 1, Len(body)), LowerLetters \o UpperLetters)

\* _encrypt_data: the token the cipher makes of data
encrypt_data(data) == "enc(" \o data \o ")"

\* _decrypt_data raises on a cell that is no token of the cipher
decrypt_data_raises(cell) ==
    ~(Len(cell) >= 5 /\ SubSeq(cell, 1, 4) = "enc(" /\ CharAt(cell, Len(cell)) = ")")

\* _decrypt_data of a token
decrypt_data(cell) == SubSeq(cell, 5, Len(cell) - 1)

\* _hash_password: the stored key of a password under a salt
hash_password(password, salt) == "pbkdf2(" \o password \o "," \o salt \o ")"

\* the header row _create_users_sheet appends
headers ==
    << "user_id", "username", "email_encrypted", "password_hash", "salt",
       "created_at", "last_login", "is_active", "candidate_profile_id" >>

\* all_values[1:] : the rows after the header
data_rows(all_values) == SubSeq(all_values, 2, Len(all_values))

\* _username_exists
username_exists(all_values, username) ==
    \E i \in DOMAIN data_rows(all_values) : data_rows(all_values)[i][2] = username

\* _email_exists: rows whose cell is empty or does not decrypt are passed over
email_exists(all_values, email) ==
    \E i \in DOMAIN data_rows(all_values) :
        LET cell == data_rows(all_values)[i][3]
        IN  /\ cell # ""
            /\ ~decrypt_data_raises(cell)
            /\ decrypt_data(cell) = email

Failure(error) == [ success |-> FALSE, error |-> error ]

\* register_candidate(username, email, password) on the sheet all_values:
\* the result and the sheet afterwards. user_id, salt and created_at stand
\* for what the clock and the random source give the call; sheet_raises says
\* that the sheet service fails the call's first request.
register_candidate(all_values, username, email, password, user_id, salt, created_at, sheet_raises) ==
    IF ~validate_username(username)
    THEN [ result |-> Failure("Invalid username. Must be 3-20 characters, alphanumeric with underscores."),
           sheet |-> all_values ]
    ELSE IF ~validate_email(email)
    THEN [ result |-> Failure("Invalid email format."), sheet |-> all_values ]
    ELSE IF Len(password) < 8
    THEN [ result |-> Failure("Password must be at least 8 characters long."),
           sheet |-> all_values ]
    ELSE IF sheet_raises
    THEN [ result |-> Failure("Registration failed: APIError"), sheet |-> all_values ]
    ELSE IF username_exists(all_values, username)
    THEN [ result |-> Failure("Username already exists."), sheet |-> all_values ]
    ELSE IF email_exists(all_values, email)
    THEN [ result |-> Failure("Email already registered."), sheet |-> all_values ]
    ELSE [ result |-> [ success |-> TRUE, user_id |-> user_id,
                        message |-> "Registration successful!" ],
           sheet |-> Append(all_values,
                            << user_id, username, encrypt_data(email),
                               hash_password(password, salt), salt, created_at,
                               "", "true", "" >>) ]

\* how many users the sheet holds, at most
MaxUsers == 2

UsernamePool == { "ann_1", "bob", "bob\n", "ab", "bob smith", "username" }

EmailPool == { "ann@x.io", "b.ob+1@mail.x.io", "bob@x", "@x.io" }

PasswordPool == { "secret12", "short" }

UserIdPool == { "USR_20240101000000_0a1b2c3d", "USR_20240101000001_4e5f6a7b" }

InitRegister ==
    /\ pc = "idle"
    /\ op = "register_candidate"
    /\ args = <<>>
    /\ ret = <<>>
    /\ users_sheet = << headers >>

\* a request arrives: the next call and its arguments
RegisterCall ==
    /\ op = "register_candidate"
    /\ pc \in {"idle", "returned"}
    /\ Len(users_sheet) - 1 < MaxUsers
    /\ pc' = "call"
    /\ \E username \in UsernamePool, email \in EmailPool, password \in PasswordPool :
           args' = [ username |-> username, email |-> email, password |-> password ]
    /\ ret' = <<>>
    /\ UNCHANGED <<op, users_sheet>>

\* the call runs to its return, without another call in between
RegisterCandidate ==
    /\ op = "register_candidate"
    /\ pc = "call"
    /\ pc' = "returned"
    /\ \E user_id \in UserIdPool, sheet_raises \in BOOLEAN :
           LET outcome == register_candidate(users_sheet, args.username, args.email,
                                             args.password, user_id, "c2FsdA==",
                                             "2024-01-01T00:00:00", sheet_raises)
           IN  /\ ret' = outcome.result
               /\ users_sheet' = outcome.sheet
    /\ UNCHANGED <<op, args>>

NextRegister == RegisterCall \/ RegisterCandidate

SpecRegister == InitRegister /\ [][NextRegister]_vars

\* a username as the code's own comment and error message describe it: 3 to
\* 20 characters, each a letter, a digit or an underscore
IsWellFormedUsername(username) ==
    /\ Len(username) >= 3
    /\ Len(username) <= 20
    /\ \A i \in 1..Len(username) :
           \/ IsDigit(CharAt(username, i))
           \/ CharAt(username, i) = "_"
           \/ IndexIn(LowerLetters, CharAt(username, i)) # 0
           \/ IndexIn(UpperLetters, CharAt(username, i)) # 0

\* no two rows after the header hold the same username
UniqueUsernames ==
    \A i, j \in 2..Len(users_sheet) :
        users_sheet[i][2] = users_sheet[j][2] => i = j

\* C19: with calls running one at a time, the users sheet never holds two
\* rows with the same username; a call with an invalid username, an invalid
\* email, a password shorter than 8 characters or a stored username returns
\* success = False and appends no row; a successful call appends exactly one
\* row.
C19_RegistrationSafety ==
    /\ [](op = "register_candidate" => UniqueUsernames)
    /\ [][ (op = "register_candidate" /\ pc = "call") =>
             /\ (\/ ~IsWellFormedUsername(args.username)
                 \/ ~validate_email(args.email)
                 \/ Len(args.password) < 8
                 \/ username_exists(users_sheet, args.username)) =>
                    (ret'.success = FALSE /\ users_sheet' = users_sheet)
             /\ ret'.success =>
                    /\ Len(users_sheet') = Len(users_sheet) + 1
                    /\ SubSeq(users_sheet', 1, Len(users_sheet)) = users_sheet ]_vars

====
